---- MODULE Spec2Model ----
(***************************************************************************)
(* State-machine model of the TrakSure TCP gateway: the TCP server         *)
(* (tcp-server.js), the device manager and the store adapter               *)
(* (device-manager / database.service), the broker adapter                 *)
(* (rabbitmq.service) and the protocol parser (protocol-parser.js).        *)
(*                                                                         *)
(* Every handler of the server is an async function.  A handler runs       *)
(* atomically up to its next await of a store query; the awaited query is  *)
(* an entry of the FIFO queue of the pg client that executes it, and the   *)
(* completion of the head entry runs the continuation of the handler up    *)
(* to its next await.  TCPServer and DeviceManager each own a              *)
(* DatabaseService, hence two queues: srvDb and dmDb.                      *)
(***************************************************************************)
EXTENDS Integers, Sequences, FiniteSets, TLC

\* ------------------------------------------------------------------ bounds
MaxSessions == 2      \* connections accepted during one run
MaxFewSessions == 1   \* connections accepted during one run with timers or commands
MaxPending == 2       \* store queries in flight beyond which no new input is admitted
MaxDeliveries == 2    \* device_commands deliveries during one run
MaxFrames == 2        \* data events during one run, over all sessions
MaxSequence == 300    \* largest serial number passed to buildLocationAck

\* ------------------------------------------------------- program constants
HeartbeatInterval == 60000    \* ms, period of checkOfflineDevices
OfflineTimeout == 300000      \* ms, lastSeen age beyond which a device is swept
CleanupInterval == 600000     \* ms, period of cleanupStatusCache
MaxAge == 3600000             \* ms, lastUpdate age beyond which a cached row is removed

Sessions == 1..(IF MaxFewSessions > MaxSessions THEN MaxFewSessions ELSE MaxSessions)
FewSessions == 1..MaxFewSessions
Deliveries == 1..MaxDeliveries
NoSession == 0      \* Map.get(imei) === undefined
NoImei == "null"
NoCmd == "null"
NoBytes == "null"
Throws == "TypeError"

\* IMEIs a frame or a delivery may carry: X is an active device row,
\* Y an inactive device row, Z has no row in the devices table.
Imeis == {"X", "Y", "Z"}
DeviceRows == {"X", "Y"}
DeviceActive == [i \in DeviceRows |-> i = "X"]
CacheKeys == Imeis \cup {NoImei}

Commands == {"c1"}
CommandKinds == {"locate", "bogus"}

VARIABLES
    phase,             \* "running" | "stopping" | "exited"
    sock,              \* per session: "none" | "open" | "destroyed" | "closed"
    imei,              \* deviceConnection.imei
    authenticated,     \* deviceConnection.authenticated
    authTimeout,       \* the 30 s timer: "none" | "armed" | "cleared" | "fired"
    connectedDevices,  \* Map<imei, DeviceConnection>
    written,           \* per session: payloads the socket accepted
    devOnline,         \* devices.online, per device row
    deviceStatus,      \* DeviceManager.deviceStatus, the status cache
    srvDb,             \* queries in flight on TCPServer.database
    dmDb,              \* queries in flight on DeviceManager.database
    cmdStatus,         \* commands.status
    cmdError,          \* commands.error_message
    deliv,             \* device_commands deliveries
    published,         \* messages published on tracker_messages / device_alerts
    nframes,           \* data events received so far, over all sessions
    authFailures,      \* history: authentications that failed so far
    displaced,         \* history: sessions whose registry entry another session overwrote
    deadline,          \* history, per session: "future" | "met" | "missed" (unauthenticated when its 30 s elapsed)
    buffer,            \* deviceConnection.buffer, a sequence of bytes
    stream,            \* history, per session: the bytes received so far
    events,            \* history, per session: what parse returned for each chunk received
    locations,         \* rows of the locations table, by the IMEI of their device
    cmdWire,           \* history, per session: the deliveries whose command bytes the socket accepted, in order
    sidecar,           \* the sidecar consumer: its device_commands deliveries
    built,             \* the GT06 sub-codec: the last frame it built
    periods,           \* periods of the sweep timer since the last cache cleanup
    stopCause,         \* the process event that ran stopServer first
    exitCode,          \* the argument of process.exit
    backoff,           \* the sidecar's start(): its local backoff, in ms
    loop               \* the sidecar's start() and runOnce(): where they stand

vars == <<phase, sock, imei, authenticated, authTimeout, connectedDevices,
          written, devOnline, deviceStatus, srvDb, dmDb, cmdStatus, cmdError,
          deliv, published, nframes, authFailures, displaced, deadline,
          buffer, stream, events, locations, cmdWire, sidecar, built,
          periods, stopCause, exitCode, backoff, loop>>

connVars == <<sock, imei, authenticated, authTimeout, connectedDevices, written>>
storeVars == <<devOnline, deviceStatus, locations, periods>>
cmdVars == <<cmdStatus, cmdError, deliv>>
busVars == <<published, nframes>>
histVars == <<authFailures, displaced, deadline, cmdWire>>
bufVars == <<buffer, stream, events>>
loopVars == <<backoff, loop>>
sideVars == <<sidecar, built, loopVars>>
procVars == <<stopCause, exitCode>>
serverVars == <<phase, procVars, connVars, storeVars, srvDb, dmDb, cmdVars, busVars, histVars, bufVars>>

\* ------------------------------------------------------------ the parser
\* A default parser that has a command encoder
DefaultParserGt06 == "gt06"

\* ProtocolParser.defaultParser
DefaultParser == "gps303"

\* The typed events ProtocolParser.parse can return.  gps303 is tried first
\* and takes every buffer starting with "##" (login, no IMEI) or "imei:"
\* (location); gt06 takes 0x78 0x78 frames; generic takes everything else.
Frames ==
    {[type |-> "login", protocol |-> "gps303", imei |-> NoImei]}
    \cup {[type |-> "location", protocol |-> "gps303", imei |-> i] : i \in Imeis}
    \cup {[type |-> "login", protocol |-> "gt06", imei |-> i] : i \in Imeis}
    \cup {[type |-> t, protocol |-> "gt06", imei |-> NoImei] :
             t \in {"location", "heartbeat", "alarm", "response", "unknown"}}
    \cup {[type |-> "unknown", protocol |-> "generic", imei |-> NoImei]}

\* ------------------------------------------------- the parser, byte level
\* Bytes are 0..255 and a buffer is a sequence of bytes.
START_BIT == 120     \* 0x78
STOP_BIT == 13       \* 0x0d
STOP_BIT2 == 10      \* 0x0a
BufferCap == 1024    \* buffer.length beyond which an unparsed buffer is cleared

\* buffer.toString("ascii"): the high bit of every byte is dropped
Text(b) == [n \in 1..Len(b) |-> b[n] % 128]

\* String.prototype.startsWith
StartsWith(t, p) == Len(t) >= Len(p) /\ SubSeq(t, 1, Len(p)) = p

\* the text from position from up to the first of the separators seps
Field(t, from, seps) ==
    LET ends == {n \in from..Len(t) : t[n] \in seps}
        stop == IF ends = {} THEN Len(t) + 1
                ELSE CHOOSE n \in ends : \A m \in ends : n <= m
    IN SubSeq(t, from, stop - 1)

HashHash == <<35, 35>>                   \* "##"
ImeiColon == <<105, 109, 101, 105, 58>>  \* "imei:"
Comma == 44
Colon == 58

\* The IMEI strings of the model as the protocols carry them: a text field
\* (GPS303, TK103) and eight BCD bytes (GT06).  Any other non-empty value is
\* an IMEI without a device row.
ImeiText == [i \in DeviceRows |-> IF i = "X" THEN <<88>> ELSE <<89>>]
ImeiBcd == [i \in DeviceRows |-> IF i = "X" THEN <<1, 35, 69, 103, 137, 1, 35, 69>>
                                 ELSE <<1, 35, 69, 103, 137, 1, 35, 70>>]

TextImei(field) ==
    IF field = <<>> THEN NoImei
    ELSE IF \E i \in DeviceRows : ImeiText[i] = field
    THEN CHOOSE i \in DeviceRows : ImeiText[i] = field
    ELSE "Z"

\* GT06Parser.parseIMEI
parseIMEI(b) ==
    IF \E i \in DeviceRows : ImeiBcd[i] = b
    THEN CHOOSE i \in DeviceRows : ImeiBcd[i] = b
    ELSE "Z"

\* What a sub-codec returns: a decoded event and the bytes it took, or no
\* success (a rejection or an exception, which ProtocolParser.parse treats alike).
NoParse == [success |-> FALSE, type |-> "", imei |-> NoImei, bytesProcessed |-> 0]
Parsed(type, i, n) == [success |-> TRUE, type |-> type, imei |-> i, bytesProcessed |-> n]

\* GPS303Parser.parse
GPS303Parse(b) ==
    LET data == Text(b)
        parts == Cardinality({n \in 1..Len(data) : data[n] = Comma}) + 1
    IN IF StartsWith(data, HashHash) THEN Parsed("login", NoImei, Len(b))
       ELSE IF StartsWith(data, ImeiColon) /\ parts >= 12
       THEN Parsed("location", TextImei(Field(data, 6, {Comma, Colon})), Len(b))
       ELSE NoParse

\* GT06Parser.parse
GT06Parse(b) ==
    IF Len(b) < 5 THEN NoParse
    ELSE IF b[1] # START_BIT \/ b[2] # START_BIT THEN NoParse
    ELSE LET length == b[3]
             totalLength == length + 5
             protocolNumber == b[4]
             data == SubSeq(b, 5, length + 2)
         IN IF Len(b) < totalLength THEN NoParse
            ELSE IF b[totalLength - 1] # STOP_BIT \/ b[totalLength] # STOP_BIT2 THEN NoParse
            ELSE CASE protocolNumber = 1 ->
                        IF Len(data) < 10 THEN NoParse
                        ELSE Parsed("login", parseIMEI(SubSeq(data, 1, 8)), totalLength)
                   [] protocolNumber = 18 ->
                        IF Len(data) < 21 THEN NoParse
                        ELSE Parsed("location", NoImei, totalLength)
                   [] protocolNumber = 19 -> Parsed("heartbeat", NoImei, totalLength)
                   [] protocolNumber = 22 ->
                        IF Len(data) < 21 THEN NoParse
                        ELSE Parsed("alarm", NoImei, totalLength)
                   [] protocolNumber = 21 -> Parsed("response", NoImei, totalLength)
                   [] OTHER -> Parsed("unknown", NoImei, totalLength)

\* TK103Parser.parse
TK103Parse(b) ==
    LET data == Text(b)
        commas == {n \in 1..Len(data) : data[n] = Comma}
        first == CHOOSE n \in commas : \A m \in commas : n <= m
        part1 == Field(data, first + 1, {Comma})
    IN IF ~StartsWith(data, HashHash) \/ commas = {} THEN NoParse
       ELSE IF StartsWith(part1, ImeiColon)
       THEN Parsed("login", TextImei(SubSeq(part1, 6, Len(part1))), Len(b))
       ELSE NoParse

\* H02Parser.parse
H02Parse(b) == NoParse

\* GenericParser.parse
GenericParse(b) == Parsed("unknown", NoImei, Len(b))

\* ProtocolParser.parse: the sub-codecs in the order of this.parsers, then
\* the generic one; the result carries the protocol that took the buffer
WithProtocol(r, protocol) ==
    [success |-> r.success, type |-> r.type, imei |-> r.imei,
     bytesProcessed |-> r.bytesProcessed, protocol |-> protocol]

parse(b) ==
    IF GPS303Parse(b).success THEN WithProtocol(GPS303Parse(b), "gps303")
    ELSE IF GT06Parse(b).success THEN WithProtocol(GT06Parse(b), "gt06")
    ELSE IF TK103Parse(b).success THEN WithProtocol(TK103Parse(b), "tk103")
    ELSE IF H02Parse(b).success THEN WithProtocol(H02Parse(b), "h02")
    ELSE WithProtocol(GenericParse(b), "generic")

\* GT06Parser.parseCommandResponse: the event carries no commandId
ResponseCommandId == NoCmd

\* <SubCodec>.buildCommand(command, parameters); Throws stands for the call
\* of a method the class does not define.
SubCodecBuildCommand(protocol, command) ==
    CASE protocol = "gps303" -> Throws
      [] protocol = "gt06" ->
            CASE command = "locate" -> "gt06:80010101"
              [] command = "reboot" -> "gt06:80020101"
              [] command = "engine_stop" -> "gt06:80050101"
              [] command = "engine_resume" -> "gt06:80050100"
              [] OTHER -> NoBytes
      [] protocol = "tk103" ->
            IF command = "locate" THEN "**,imei:000000000000000,C,01m;" ELSE NoBytes
      [] protocol = "h02" -> NoBytes
      [] OTHER -> command

\* ProtocolParser.buildCommand(command, parameters, protocol = null)
buildCommand(command, protocol) ==
    SubCodecBuildCommand(IF protocol = NoBytes THEN DefaultParser ELSE protocol, command)

SubCodecAuthResponse(protocol, success) ==
    CASE protocol = "gps303" -> IF success THEN "LOAD" ELSE NoBytes
      [] protocol = "gt06" -> IF success THEN "gt06:0101" ELSE "gt06:0100"
      [] protocol = "tk103" -> IF success THEN "LOAD" ELSE NoBytes
      [] protocol = "h02" -> NoBytes
      [] OTHER -> "OK"

\* ProtocolParser.buildAuthResponse(success, protocol = null)
buildAuthResponse(success, protocol) ==
    SubCodecAuthResponse(IF protocol = NoBytes THEN DefaultParser ELSE protocol, success)

SubCodecLoginResponse(protocol, success) ==
    CASE protocol = "gps303" -> "LOAD"
      [] protocol = "gt06" -> IF success THEN "gt06:0101" ELSE "gt06:0100"
      [] protocol = "tk103" -> IF success THEN "LOAD" ELSE NoBytes
      [] protocol = "h02" -> NoBytes
      [] OTHER -> "OK"

\* ProtocolParser.buildLoginResponse(success, protocol = null)
buildLoginResponse(success, protocol) ==
    SubCodecLoginResponse(IF protocol = NoBytes THEN DefaultParser ELSE protocol, success)

SubCodecLocationAck(protocol) ==
    CASE protocol = "gps303" -> "ON"
      [] protocol = "gt06" -> "gt06:0501"
      [] protocol = "tk103" -> "ON"
      [] protocol = "h02" -> NoBytes
      [] OTHER -> "ACK"

\* ProtocolParser.buildLocationAck(sequence, protocol = null)
buildLocationAck(protocol) ==
    SubCodecLocationAck(IF protocol = NoBytes THEN DefaultParser ELSE protocol)

SubCodecHeartbeatResponse(protocol) ==
    CASE protocol = "gps303" -> "ON"
      [] protocol = "gt06" -> "gt06:1301"
      [] protocol = "tk103" -> "ON"
      [] protocol = "h02" -> NoBytes
      [] OTHER -> "PONG"

\* ProtocolParser.buildHeartbeatResponse(protocol = null)
buildHeartbeatResponse(protocol) ==
    SubCodecHeartbeatResponse(IF protocol = NoBytes THEN DefaultParser ELSE protocol)

\* ------------------------------------------- the GT06 encoder, byte level
\* Buffer.alloc(n), source.copy(target, offset), buffer.slice(start, end) and
\* buffer.writeUInt16BE(value, offset), with the offsets of the code (from 0)
Alloc(n) == [k \in 1..n |-> 0]
Copy(target, offset, source) ==
    [k \in 1..Len(target) |->
        IF k - 1 >= offset /\ k - 1 < offset + Len(source) THEN source[k - offset]
        ELSE target[k]]
Slice(b, start, end) == SubSeq(b, start + 1, end)
WriteUInt16BE(b, value, offset) == Copy(b, offset, <<value \div 256, value % 256>>)

RECURSIVE SumBytes(_)
SumBytes(data) == IF data = <<>> THEN 0 ELSE Head(data) + SumBytes(Tail(data))

\* GT06Parser.calculateCRC
calculateCRC(data) == SumBytes(data) % 65536

\* GT06Parser.wrapCommand
wrapCommand(data) ==
    LET length == Len(data) + 1
        buffer0 == Copy(Alloc(length + 5), 0, <<START_BIT, START_BIT, length>>)
        buffer1 == Copy(buffer0, 3, data)
        crc == calculateCRC(Slice(buffer1, 2, 3 + length))
    IN WriteUInt16BE(buffer1, crc, 3 + length)

\* GT06Parser.buildCommand and the data of its commands; <<>> stands for null
GT06CommandData(command) ==
    CASE command = "locate" -> <<128, 1, 1, 1>>
      [] command = "reboot" -> <<128, 2, 1, 1>>
      [] command = "engine_stop" -> <<128, 5, 1, 1>>
      [] command = "engine_resume" -> <<128, 5, 1, 0>>
      [] OTHER -> <<>>

GT06BuildCommand(command) ==
    IF GT06CommandData(command) = <<>> THEN <<>> ELSE wrapCommand(GT06CommandData(command))

\* GT06Parser.buildAuthResponse / buildLoginResponse
GT06AuthData(success) == <<1, IF success THEN 1 ELSE 0>>

\* GT06Parser.buildLocationAck
GT06LocationAckData(sequence) == <<5, 1, sequence % 256>>

\* GT06Parser.buildHeartbeatResponse
GT06HeartbeatData == <<19, 1>>

\* One call of a builder of the GT06 sub-codec
Gt06Commands == {"locate", "reboot", "engine_stop", "engine_resume", "bogus"}

CallBuildCommand(command) ==
    /\ built' = [call |-> "buildCommand", data |-> GT06CommandData(command),
                 frame |-> GT06BuildCommand(command),
                 result |-> NoParse]
    /\ UNCHANGED <<serverVars, sidecar, loopVars>>

CallBuildAuthResponse(success) ==
    /\ built' = [call |-> "buildAuthResponse", data |-> GT06AuthData(success),
                 frame |-> wrapCommand(GT06AuthData(success)),
                 result |-> NoParse]
    /\ UNCHANGED <<serverVars, sidecar, loopVars>>

CallBuildLoginResponse(success) ==
    /\ built' = [call |-> "buildLoginResponse", data |-> GT06AuthData(success),
                 frame |-> wrapCommand(GT06AuthData(success)),
                 result |-> NoParse]
    /\ UNCHANGED <<serverVars, sidecar, loopVars>>

CallBuildLocationAck(sequence) ==
    /\ built' = [call |-> "buildLocationAck", data |-> GT06LocationAckData(sequence),
                 frame |-> wrapCommand(GT06LocationAckData(sequence)),
                 result |-> NoParse]
    /\ UNCHANGED <<serverVars, sidecar, loopVars>>

\* One call of GT06Parser.parse
CallParse(b) ==
    /\ built' = [call |-> "parse", data |-> b, frame |-> <<>>, result |-> GT06Parse(b)]
    /\ UNCHANGED <<serverVars, sidecar, loopVars>>

CallBuildHeartbeatResponse ==
    /\ built' = [call |-> "buildHeartbeatResponse", data |-> GT06HeartbeatData,
                 frame |-> wrapCommand(GT06HeartbeatData),
                 result |-> NoParse]
    /\ UNCHANGED <<serverVars, sidecar, loopVars>>

\* ------------------------------------------------------------- the store
\* The lookup without its "AND active = true"
getDeviceByImeiAnyRow(i) == i \in DeviceRows

\* DatabaseService.getDeviceByImei: WHERE imei = $1 AND active = true
getDeviceByImei(i) == i \in DeviceRows /\ DeviceActive[i]

\* DatabaseService.setDeviceOnlineStatus: UPDATE devices SET online = $2 WHERE imei = $1
setDeviceOnlineStatus(online, i, isOnline) ==
    [r \in DeviceRows |-> IF r = i THEN isOnline ELSE online[r]]

\* A cached status row; seenAge is now - lastSeen and updateAge is
\* now - lastUpdate, in ms; NoUpdate stands for a row without lastUpdate.
NoUpdate == -1
NoStatus == [present |-> FALSE, online |-> FALSE, seenAge |-> 0, updateAge |-> NoUpdate]
Status(isOnline) == [present |-> TRUE, online |-> isOnline, seenAge |-> 0, updateAge |-> 0]

\* A query in flight together with the continuation that awaits it.
Query(op, from, s, i, type, val, rest, d, c, status, error) ==
    [op |-> op, from |-> from, s |-> s, imei |-> i, type |-> type, val |-> val,
     rest |-> rest, d |-> d, c |-> c, status |-> status, error |-> error]

\* The queries the handlers issue.
QGetDeviceByImei(s, i, type) ==
    Query("getDeviceByImei", "authenticateDevice", s, i, type, FALSE, <<>>, 0, NoCmd, "", "")
QGetDeviceId(s, i, type) ==
    Query("getDeviceIdByImei", "handleDeviceData", s, i, type, FALSE, <<>>, 0, NoCmd, "", "")
QSave(s, i, type) ==
    Query(IF type = "alarm" THEN "saveAlert" ELSE "saveLocation", "handleDeviceData",
          s, i, type, FALSE, <<>>, 0, NoCmd, "", "")
QSetDeviceOnline(from, s, i, type, val, rest) ==
    Query("setDeviceOnline", from, s, i, type, val, rest, 0, NoCmd, "", "")
QTouch(op, s, i) ==
    Query(op, "handleDeviceData", s, i, "", FALSE, <<>>, 0, NoCmd, "", "")
QUpdateCommandStatus(d, c, status, error) ==
    Query("updateCommandStatus", "handleDeviceCommand", NoSession, NoImei, "", FALSE, <<>>,
          d, c, status, error)

QAcknowledge(s, i, c) ==
    Query("updateCommandStatus", "handleCommandResponse", s, i, "response", FALSE, <<>>,
          0, c, "acknowledged", "")

Pending == Len(srvDb) + Len(dmDb)
Admit == phase # "exited" /\ Pending < MaxPending

\* ----------------------------------------------------------------- Init
\* A delivery the sidecar consumer has not received; the GT06 sub-codec
\* before its first call.
NoSidecar == [state |-> "none", json |-> FALSE, targetHost |-> FALSE, host |-> FALSE,
              port |-> FALSE, sent |-> FALSE, timer |-> "none", acks |-> 0, nacks |-> 0]
NoBuilt == [call |-> "none", data |-> <<>>, frame |-> <<>>, result |-> NoParse]

NoDeliv == [state |-> "none", imei |-> NoImei, command |-> "", commandId |-> NoCmd,
            s |-> NoSession, found |-> FALSE, bytes |-> NoBytes, stored |-> "none",
            json |-> TRUE]

\* process.exit has not been called
NoExit == -1

Init ==
    /\ phase = "running"
    /\ sock = [s \in Sessions |-> "none"]
    /\ imei = [s \in Sessions |-> NoImei]
    /\ authenticated = [s \in Sessions |-> FALSE]
    /\ authTimeout = [s \in Sessions |-> "none"]
    /\ connectedDevices = [i \in Imeis |-> NoSession]
    /\ written = [s \in Sessions |-> {}]
    /\ devOnline = [r \in DeviceRows |-> FALSE]
    /\ deviceStatus = [k \in CacheKeys |-> NoStatus]
    /\ srvDb = <<>>
    /\ dmDb = <<>>
    /\ cmdStatus = [c \in Commands |-> "pending"]
    /\ cmdError = [c \in Commands |-> ""]
    /\ deliv = [d \in Deliveries |-> NoDeliv]
    /\ published = {}
    /\ nframes = 0
    /\ authFailures = 0
    /\ displaced = {}
    /\ deadline = [s \in Sessions |-> "future"]
    /\ buffer = [s \in Sessions |-> <<>>]
    /\ stream = [s \in Sessions |-> <<>>]
    /\ events = [s \in Sessions |-> <<>>]
    /\ locations = {}
    /\ cmdWire = [s \in Sessions |-> <<>>]
    /\ sidecar = [d \in Deliveries |-> NoSidecar]
    /\ built = NoBuilt
    /\ periods = 0
    /\ stopCause = "none"
    /\ exitCode = NoExit
    /\ backoff = 1000
    /\ loop = [pc |-> "connect", i |-> 0, assertBackoff |-> 200, delay |-> 0,
               outcome |-> "none"]

\* ------------------------------------------------------ socket primitives
\* socket.destroy(): the "close" event follows later
Destroy(sk, s) == [sk EXCEPT ![s] = IF @ = "open" THEN "destroyed" ELSE @]

\* socket.write(bytes): a destroyed socket accepts nothing
Write(w, sk, s, bytes) ==
    IF bytes # NoBytes /\ sk[s] = "open" THEN [w EXCEPT ![s] = @ \cup {bytes}] ELSE w

\* clearTimeout(authTimeout)
ClearTimeout(tm, s) == [tm EXCEPT ![s] = IF @ = "armed" THEN "cleared" ELSE @]

\* ----------------------------------------------------- handleDeviceData
\* The tail of handleDeviceData (the authenticated check and the switch on
\* the message type), as the queries it issues: a is
\* deviceConnection.authenticated and i deviceConnection.imei when it runs.
RouteDmNoAuthCheck(a, s, type, i) ==
    IF type = "login" THEN <<QTouch("updateLastLogin", s, i)>>
    ELSE IF type = "heartbeat" THEN <<QTouch("updateLastHeartbeat", s, i)>>
    ELSE <<>>

RouteDm(a, s, type, i) ==
    IF ~a /\ type # "login" THEN <<>>
    ELSE IF type = "login" THEN <<QTouch("updateLastLogin", s, i)>>
    ELSE IF type = "heartbeat" THEN <<QTouch("updateLastHeartbeat", s, i)>>
    ELSE <<>>

RouteSrv(a, s, type, i) ==
    IF ~a /\ type # "login" THEN <<>>
    ELSE IF type \in {"location", "alarm"} THEN <<QGetDeviceId(s, i, type)>>
    ELSE IF type = "response" /\ ResponseCommandId # NoCmd
    THEN <<QAcknowledge(s, i, ResponseCommandId)>>
    ELSE <<>>

\* TCPServer.handleConnection
Accept(s) ==
    /\ phase = "running"
    /\ sock[s] = "none"
    /\ \A r \in Sessions : r < s => sock[r] # "none"
    /\ sock' = [sock EXCEPT ![s] = "open"]
    /\ authTimeout' = [authTimeout EXCEPT ![s] = "armed"]
    /\ UNCHANGED <<phase, procVars, imei, authenticated, connectedDevices, written, storeVars,
                   srvDb, dmDb, cmdVars, busVars, histVars, bufVars, sideVars>>

\* A condition no event satisfies
PreAuthLoginNever(f) == FALSE

\* handleDeviceData: parsedData.type === "login" && parsedData.protocol === "gps303"
PreAuthLogin(f) == f.type = "login" /\ f.protocol = "gps303"

\* handleDeviceData from the parse result to its first await: the event f
\* that parse returned is dispatched
Dispatch(s, f) ==
    /\ authTimeout' = ClearTimeout(authTimeout, s)
    /\ IF PreAuthLogin(f)
       THEN /\ written' = Write(written, sock, s, "LOAD")
            /\ UNCHANGED <<srvDb, dmDb>>
       ELSE IF ~authenticated[s] /\ f.imei # NoImei
       THEN /\ srvDb' = Append(srvDb, QGetDeviceByImei(s, f.imei, f.type))
            /\ UNCHANGED <<written, dmDb>>
       ELSE /\ srvDb' = srvDb \o RouteSrv(authenticated[s], s, f.type, imei[s])
            /\ dmDb' = dmDb \o RouteDm(authenticated[s], s, f.type, imei[s])
            /\ UNCHANGED written
    /\ nframes' = nframes + 1
    /\ UNCHANGED <<phase, procVars, sock, imei, authenticated, connectedDevices, storeVars,
                   cmdVars, published, histVars, sideVars>>

\* socket.on("data") up to the first await of handleDeviceData, for a chunk
\* that is one whole frame arriving on an empty buffer: parse returns f and
\* consumes the chunk
DataEvent(s, f) ==
    /\ Admit
    /\ nframes < MaxFrames
    /\ sock[s] = "open"
    /\ buffer[s] = <<>>
    /\ Dispatch(s, f)
    /\ UNCHANGED bufVars

\* socket.on("data") up to the first await of handleDeviceData, for any
\* chunk: the chunk is appended to the buffer, parse runs once on the whole
\* buffer, the bytes it took are dropped and its event is dispatched
Receive(s, chunk) ==
    /\ Admit
    /\ nframes < MaxFrames
    /\ sock[s] = "open"
    /\ LET buf == buffer[s] \o chunk
           r == parse(buf)
           f == [type |-> r.type, protocol |-> r.protocol, imei |-> r.imei]
       IN /\ stream' = [stream EXCEPT ![s] = @ \o chunk]
          /\ IF ~r.success
             THEN /\ buffer' = [buffer EXCEPT ![s] = IF Len(buf) > BufferCap THEN <<>> ELSE buf]
                  /\ authTimeout' = ClearTimeout(authTimeout, s)
                  /\ nframes' = nframes + 1
                  /\ UNCHANGED <<phase, procVars, sock, imei, authenticated, connectedDevices, written,
                                 storeVars, srvDb, dmDb, cmdVars, published, histVars, events,
                                 sideVars>>
             ELSE /\ buffer' = [buffer EXCEPT ![s] = SubSeq(buf, r.bytesProcessed + 1, Len(buf))]
                  /\ events' = [events EXCEPT ![s] = Append(@, f)]
                  /\ Dispatch(s, f)

\* TCPServer.stop(), as its effect on the sockets and the registry
StopSock(sk, reg) ==
    [s \in Sessions |-> IF \E i \in Imeis : reg[i] = s THEN Destroy(sk, s)[s] ELSE sk[s]]

\* authenticateDevice resumed by the result of getDeviceByImei, then the
\* rest of handleDeviceData
AuthLookupDone(ok) ==
    /\ phase # "exited"
    /\ srvDb # <<>>
    /\ Head(srvDb).op = "getDeviceByImei"
    /\ LET q == Head(srvDb)
           s == q.s
       IN IF ok /\ getDeviceByImei(q.imei)
          THEN /\ imei' = [imei EXCEPT ![s] = q.imei]
               /\ authenticated' = [authenticated EXCEPT ![s] = TRUE]
               /\ connectedDevices' = [connectedDevices EXCEPT ![q.imei] = s]
               /\ displaced' = IF connectedDevices[q.imei] \notin {NoSession, s}
                               THEN displaced \cup {connectedDevices[q.imei]}
                               ELSE displaced
               /\ srvDb' = Tail(srvDb)
               /\ dmDb' = Append(dmDb, QSetDeviceOnline("authenticateDevice", s, q.imei,
                                                        q.type, TRUE, <<>>))
               /\ UNCHANGED <<sock, authFailures>>
          ELSE /\ sock' = Destroy(sock, s)
               /\ authFailures' = authFailures + 1
               /\ srvDb' = Tail(srvDb) \o RouteSrv(authenticated[s], s, q.type, imei[s])
               /\ dmDb' = dmDb \o RouteDm(authenticated[s], s, q.type, imei[s])
               /\ UNCHANGED <<imei, authenticated, connectedDevices, displaced>>
    /\ UNCHANGED <<phase, procVars, authTimeout, written, storeVars, cmdVars, busVars, deadline,
                   cmdWire, bufVars, sideVars>>

\* handleLocationData / handleAlarmData resumed by getDeviceIdByImei
DeviceIdDone(ok) ==
    /\ phase # "exited"
    /\ srvDb # <<>>
    /\ Head(srvDb).op = "getDeviceIdByImei"
    /\ LET q == Head(srvDb)
       IN srvDb' = IF ok THEN Append(Tail(srvDb), QSave(q.s, q.imei, q.type))
                   ELSE Tail(srvDb)
    /\ UNCHANGED <<phase, procVars, connVars, storeVars, dmDb, cmdVars, busVars, histVars, bufVars, sideVars>>

\* DatabaseService.saveLocation: INSERT INTO locations
saveLocation(rows, i) == rows \cup {i}

\* A publish that puts nothing on the queue
publishToQueueNothing(pub, queueName, i) == pub

\* RabbitMQService.publishToQueue: channel.sendToQueue(queueName, message)
publishToQueue(pub, queueName, i) == pub \cup {[queue |-> queueName, imei |-> i]}

\* handleLocationData / handleAlarmData resumed by saveLocation / saveAlert:
\* the row is stored, the message published and, for a location, the ack
\* written; a rejection of the store skips all of it
SaveDone(ok) ==
    /\ phase # "exited"
    /\ srvDb # <<>>
    /\ Head(srvDb).op \in {"saveLocation", "saveAlert"}
    /\ LET q == Head(srvDb)
       IN /\ srvDb' = Tail(srvDb)
          /\ locations' = IF ok /\ q.op = "saveLocation" THEN saveLocation(locations, q.imei)
                          ELSE locations
          /\ published' =
                IF ~ok THEN published
                ELSE publishToQueue(published,
                                    IF q.op = "saveAlert" THEN "device_alerts"
                                    ELSE "tracker_messages",
                                    q.imei)
          /\ written' = IF ok /\ q.op = "saveLocation"
                        THEN Write(written, sock, q.s, buildLocationAck(NoBytes))
                        ELSE written
    /\ UNCHANGED <<phase, procVars, sock, imei, authenticated, authTimeout, connectedDevices,
                   devOnline, deviceStatus, periods, dmDb, cmdVars, nframes, histVars, bufVars,
                   sideVars>>

\* The same with a broker channel that is closed: the row is stored,
\* publishToQueue throws, handleLocationData / handleAlarmData catches and
\* logs, nothing is published and no ack is written
PublishFailed ==
    /\ phase # "exited"
    /\ srvDb # <<>>
    /\ Head(srvDb).op \in {"saveLocation", "saveAlert"}
    /\ LET q == Head(srvDb)
       IN /\ srvDb' = Tail(srvDb)
          /\ locations' = IF q.op = "saveLocation" THEN saveLocation(locations, q.imei)
                          ELSE locations
    /\ UNCHANGED <<phase, procVars, connVars, devOnline, deviceStatus, periods, dmDb, cmdVars, busVars,
                   histVars, bufVars, sideVars>>

\* -------------------------------------------------------- DeviceManager
\* The cache write of setDeviceOnline: a fresh row, lastSeen = now
CacheSetOnline(cache, i, isOnline) == [cache EXCEPT ![i] = Status(isOnline)]

\* The cache write of updateLastHeartbeat / updateLastLogin: the row of the
\* IMEI, or a new object, gets lastSeen = now and online = true; lastUpdate
\* is not written
CacheTouch(cache, i) ==
    [cache EXCEPT ![i] = [present |-> TRUE, online |-> TRUE, seenAge |-> 0,
                          updateAge |-> cache[i].updateAge]]

\* TCPServer.stop() then the wait of stopServer for the listener to close
StopPhase(ph) == IF ph = "running" THEN "stopping" ELSE ph

\* setDeviceOnline resumed by setDeviceOnlineStatus, then its caller:
\* authenticateDevice and the rest of handleDeviceData, the detached call
\* of handleDisconnection (a rejection nobody handles reaches the
\* unhandledRejection handler, which runs stopServer), or the loop of
\* checkOfflineDevices.
SetOnlineDone(ok) ==
    /\ phase # "exited"
    /\ dmDb # <<>>
    /\ Head(dmDb).op = "setDeviceOnline"
    /\ LET q == Head(dmDb)
           s == q.s
       IN /\ devOnline' = IF ok THEN setDeviceOnlineStatus(devOnline, q.imei, q.val)
                          ELSE devOnline
          /\ deviceStatus' = IF ok THEN CacheSetOnline(deviceStatus, q.imei, q.val)
                             ELSE deviceStatus
          /\ CASE q.from = "authenticateDevice" ->
                    LET sk == IF ok THEN sock ELSE Destroy(sock, s)
                    IN /\ sock' = sk
                       /\ written' = IF ok
                                     THEN Write(written, sock, s, buildAuthResponse(TRUE, NoBytes))
                                     ELSE written
                       /\ srvDb' = srvDb \o RouteSrv(authenticated[s], s, q.type, imei[s])
                       /\ dmDb' = Tail(dmDb) \o RouteDm(authenticated[s], s, q.type, imei[s])
                       /\ UNCHANGED <<phase, procVars, connectedDevices>>
               [] q.from = "handleDisconnection" ->
                    /\ dmDb' = Tail(dmDb)
                    /\ IF ok
                       THEN UNCHANGED <<phase, procVars, sock, connectedDevices>>
                       ELSE /\ phase' = StopPhase(phase)
                            /\ stopCause' = IF phase = "running" THEN "unhandledRejection"
                                             ELSE stopCause
                            /\ UNCHANGED exitCode
                            /\ sock' = StopSock(sock, connectedDevices)
                            /\ connectedDevices' = [i \in Imeis |-> NoSession]
                    /\ UNCHANGED <<written, srvDb>>
               [] OTHER ->
                    /\ dmDb' = IF ok /\ q.rest # <<>>
                               THEN Append(Tail(dmDb),
                                           QSetDeviceOnline("checkOfflineDevices", NoSession,
                                                            Head(q.rest), "", FALSE, Tail(q.rest)))
                               ELSE Tail(dmDb)
                    /\ UNCHANGED <<phase, procVars, sock, connectedDevices, written, srvDb>>
    /\ UNCHANGED <<imei, authenticated, authTimeout, locations, periods, cmdVars, busVars,
                   histVars,
                   bufVars, sideVars>>

\* handleLogin / handleHeartbeat resumed by updateLastLogin / updateLastHeartbeat;
\* a rejection is rethrown up to the catch of handleDeviceData, which clears
\* the buffer of the session
TouchDone(ok) ==
    /\ phase # "exited"
    /\ dmDb # <<>>
    /\ Head(dmDb).op \in {"updateLastLogin", "updateLastHeartbeat"}
    /\ LET q == Head(dmDb)
       IN /\ dmDb' = Tail(dmDb)
          /\ deviceStatus' = IF ok THEN CacheTouch(deviceStatus, q.imei) ELSE deviceStatus
          /\ written' =
                IF ~ok THEN written
                ELSE Write(written, sock, q.s,
                           IF q.op = "updateLastLogin" THEN buildLoginResponse(TRUE, NoBytes)
                           ELSE buildHeartbeatResponse(NoBytes))
          /\ buffer' = IF ok THEN buffer ELSE [buffer EXCEPT ![q.s] = <<>>]
    /\ UNCHANGED <<phase, procVars, sock, imei, authenticated, authTimeout, connectedDevices,
                   devOnline, locations, periods, srvDb, cmdVars, busVars, histVars, stream,
                   events,
                   sideVars>>

\* now - lastSeen and now - lastUpdate after one more period of the sweep
\* timer; an age beyond its threshold is not counted further
Aged(cache) ==
    [k \in CacheKeys |->
        IF ~cache[k].present THEN cache[k]
        ELSE [cache[k] EXCEPT
                 !.seenAge = IF @ <= OfflineTimeout THEN @ + HeartbeatInterval ELSE @,
                 !.updateAge = IF @ # NoUpdate /\ @ <= MaxAge THEN @ + HeartbeatInterval
                               ELSE @]]

\* DeviceManager.cleanupStatusCache
cleanupStatusCache(cache) ==
    [k \in CacheKeys |->
        IF cache[k].present /\ cache[k].updateAge # NoUpdate /\ cache[k].updateAge > MaxAge
        THEN NoStatus
        ELSE cache[k]]

\* the offlineDevices list of checkOfflineDevices
OfflineDevices(cache) ==
    {k \in CacheKeys : cache[k].present /\ cache[k].online
                         /\ cache[k].seenAge > OfflineTimeout}

Orders(S) == {sq \in [1..Cardinality(S) -> S] : {sq[n] : n \in 1..Cardinality(S)} = S}

\* One period of the timers of startPeriodicChecks:
\* DeviceManager.checkOfflineDevices, run by setInterval every
\* HeartbeatInterval, up to its first await, and cleanupStatusCache when its
\* CleanupInterval has elapsed; the two callbacks are then due in the same
\* millisecond and run in either order
CheckOfflineDevices ==
    /\ Admit
    /\ LET due == (periods + 1) * HeartbeatInterval >= CleanupInterval
           aged == Aged(deviceStatus)
       IN /\ periods' = IF due THEN 0 ELSE periods + 1
          /\ deviceStatus' = IF due THEN cleanupStatusCache(aged) ELSE aged
          /\ \E cleanupFirst \in (IF due THEN BOOLEAN ELSE {FALSE}) :
                \E list \in Orders(OfflineDevices(IF cleanupFirst
                                                  THEN cleanupStatusCache(aged)
                                                  ELSE aged)) :
                   dmDb' = IF list = <<>> THEN dmDb
                           ELSE Append(dmDb,
                                       QSetDeviceOnline("checkOfflineDevices", NoSession,
                                                        Head(list), "", FALSE, Tail(list)))
    /\ UNCHANGED <<phase, procVars, connVars, devOnline, locations, srvDb, cmdVars, busVars, histVars,
                   bufVars, sideVars>>

\* ------------------------------------------------- disconnection, timers
\* TCPServer.handleDisconnection
DisconnectReg(reg, s) ==
    IF imei[s] # NoImei THEN [reg EXCEPT ![imei[s]] = NoSession] ELSE reg

\* The offline update without the check of deviceConnection.imei
DisconnectDmAnyImei(s) ==
    <<QSetDeviceOnline("handleDisconnection", s, imei[s], "", FALSE, <<>>)>>

DisconnectDm(s) ==
    IF imei[s] # NoImei
    THEN <<QSetDeviceOnline("handleDisconnection", s, imei[s], "", FALSE, <<>>)>>
    ELSE <<>>

\* the peer closes the connection: socket.on("close")
PeerClose(s) ==
    /\ phase # "exited"
    /\ sock[s] = "open"
    /\ sock' = [sock EXCEPT ![s] = "closed"]
    /\ authTimeout' = ClearTimeout(authTimeout, s)
    /\ connectedDevices' = DisconnectReg(connectedDevices, s)
    /\ dmDb' = dmDb \o DisconnectDm(s)
    /\ UNCHANGED <<phase, procVars, imei, authenticated, written, storeVars, srvDb, cmdVars,
                   busVars, histVars, bufVars, sideVars>>

\* the connection fails: socket.on("error") and then socket.on("close")
SocketError(s) ==
    /\ phase # "exited"
    /\ sock[s] = "open"
    /\ sock' = [sock EXCEPT ![s] = "closed"]
    /\ authTimeout' = ClearTimeout(authTimeout, s)
    /\ connectedDevices' = DisconnectReg(connectedDevices, s)
    /\ dmDb' = dmDb \o DisconnectDm(s) \o DisconnectDm(s)
    /\ UNCHANGED <<phase, procVars, imei, authenticated, written, storeVars, srvDb, cmdVars,
                   busVars, histVars, bufVars, sideVars>>

\* socket.on("close") after the server destroyed the socket
CloseEvent(s) ==
    /\ phase # "exited"
    /\ sock[s] = "destroyed"
    /\ sock' = [sock EXCEPT ![s] = "closed"]
    /\ authTimeout' = ClearTimeout(authTimeout, s)
    /\ connectedDevices' = DisconnectReg(connectedDevices, s)
    /\ dmDb' = dmDb \o DisconnectDm(s)
    /\ UNCHANGED <<phase, procVars, imei, authenticated, written, storeVars, srvDb, cmdVars,
                   busVars, histVars, bufVars, sideVars>>

\* 30 s after accept: the authTimeout callback runs unless it was cleared
AuthDeadline(s) ==
    /\ phase # "exited"
    /\ sock[s] # "none"
    /\ deadline[s] = "future"
    /\ deadline' = [deadline EXCEPT ![s] = IF authenticated[s] THEN "met" ELSE "missed"]
    /\ IF authTimeout[s] = "armed"
       THEN /\ authTimeout' = [authTimeout EXCEPT ![s] = "fired"]
            /\ sock' = IF authenticated[s] THEN sock ELSE Destroy(sock, s)
       ELSE UNCHANGED <<authTimeout, sock>>
    /\ UNCHANGED <<phase, procVars, imei, authenticated, connectedDevices, written, storeVars,
                   srvDb, dmDb, cmdVars, busVars, authFailures, displaced, cmdWire,
                   bufVars, sideVars>>

\* SIGINT / SIGTERM: stopServer, TCPServer.stop
Stop ==
    /\ phase = "running"
    /\ phase' = "stopping"
    /\ stopCause' = "SIGTERM"
    /\ UNCHANGED exitCode
    /\ sock' = StopSock(sock, connectedDevices)
    /\ connectedDevices' = [i \in Imeis |-> NoSession]
    /\ UNCHANGED <<imei, authenticated, authTimeout, written, storeVars, srvDb, dmDb,
                   cmdVars, busVars, histVars, bufVars, sideVars>>

\* server.close calls back once every connection has ended; stop() resolves
\* (it has no reject path) and stopServer calls process.exit(0), whichever
\* handler called it
Exit ==
    /\ phase = "stopping"
    /\ \A s \in Sessions : sock[s] \in {"none", "closed"}
    /\ phase' = "exited"
    /\ exitCode' = 0
    /\ UNCHANGED stopCause
    /\ UNCHANGED <<connVars, storeVars, srvDb, dmDb, cmdVars, busVars, histVars, bufVars, sideVars>>

\* ------------------------------------------------------------ dispatcher
\* RabbitMQService.consumeQueue callback and TCPServer.handleDeviceCommand up
\* to its await of updateCommandStatus; a throw of buildCommand is caught by
\* handleDeviceCommand, the handler returns and consumeQueue acks.
Deliver(d, i, command, c) ==
    /\ Admit
    /\ deliv[d].state = "none"
    /\ \A e \in Deliveries : e < d => deliv[e].state # "none"
    /\ LET s == connectedDevices[i]
           bytes == buildCommand(command, NoBytes)
           msg == [NoDeliv EXCEPT !.imei = i, !.command = command, !.commandId = c,
                                  !.s = s, !.found = (s # NoSession)]
       IN IF s = NoSession
          THEN /\ deliv' = [deliv EXCEPT ![d] = [msg EXCEPT !.state = "handling"]]
               /\ srvDb' = Append(srvDb, QUpdateCommandStatus(d, c, "failed",
                                                             "Device not connected"))
               /\ UNCHANGED <<written, cmdWire>>
          ELSE IF bytes = Throws
          THEN /\ deliv' = [deliv EXCEPT ![d] = [msg EXCEPT !.state = "acked"]]
               /\ UNCHANGED <<srvDb, written, cmdWire>>
          ELSE IF bytes = NoBytes
          THEN /\ deliv' = [deliv EXCEPT ![d] = [msg EXCEPT !.state = "handling"]]
               /\ srvDb' = Append(srvDb, QUpdateCommandStatus(d, c, "failed",
                                                             "Invalid command format"))
               /\ UNCHANGED <<written, cmdWire>>
          ELSE /\ deliv' = [deliv EXCEPT ![d] = [msg EXCEPT !.state = "handling", !.bytes = bytes]]
               /\ written' = Write(written, sock, s, bytes)
               /\ cmdWire' = IF sock[s] = "open" THEN [cmdWire EXCEPT ![s] = Append(@, d)]
                             ELSE cmdWire
               /\ srvDb' = Append(srvDb, QUpdateCommandStatus(d, c, "sent", ""))
    /\ UNCHANGED <<phase, procVars, sock, imei, authenticated, authTimeout, connectedDevices,
                   storeVars, dmDb, cmdStatus, cmdError, busVars, authFailures, displaced,
                   deadline, bufVars, sideVars>>

\* RabbitMQService.consumeQueue callback for a delivery whose content is no
\* JSON: JSON.parse throws, the catch logs and nacks without requeue; the
\* handler is not called
DeliverMalformed(d) ==
    /\ Admit
    /\ deliv[d].state = "none"
    /\ \A e \in Deliveries : e < d => deliv[e].state # "none"
    /\ deliv' = [deliv EXCEPT ![d] = [NoDeliv EXCEPT !.state = "nacked", !.json = FALSE]]
    /\ UNCHANGED <<phase, procVars, connVars, storeVars, srvDb, dmDb, cmdStatus, cmdError, busVars,
                   histVars, bufVars, sideVars>>

\* An UPDATE whose WHERE clause matches no row
updateCommandStatusNoRow(status, c, newStatus) == status

\* DatabaseService.updateCommandStatus: UPDATE commands SET status = $2 WHERE id = $1
updateCommandStatus(status, c, newStatus) == [status EXCEPT ![c] = newStatus]

\* handleDeviceCommand resumed by updateCommandStatus (a rejection is caught
\* and logged), then the ack of consumeQueue; or handleCommandResponse
\* resumed by it
CommandStatusDone(ok) ==
    /\ phase # "exited"
    /\ srvDb # <<>>
    /\ Head(srvDb).op = "updateCommandStatus"
    /\ LET q == Head(srvDb)
       IN /\ srvDb' = Tail(srvDb)
          /\ cmdStatus' = IF ok THEN updateCommandStatus(cmdStatus, q.c, q.status)
                          ELSE cmdStatus
          /\ cmdError' = IF ok /\ q.error # "" THEN [cmdError EXCEPT ![q.c] = q.error]
                         ELSE cmdError
          /\ deliv' = IF q.from # "handleDeviceCommand" THEN deliv
                      ELSE [deliv EXCEPT ![q.d] = [@ EXCEPT !.state = "acked",
                                                            !.stored = IF ok THEN "ok" ELSE "error"]]
    /\ UNCHANGED <<phase, procVars, connVars, storeVars, dmDb, busVars, histVars, bufVars, sideVars>>

\* --------------------------------------------------------------- sidecar
\* The device_commands messages the sidecar consumer may receive: text that
\* is no JSON, or a JSON object whose payload has or lacks targetHost, host
\* and a port (targetPort or port).
SidecarMessages ==
    {[json |-> FALSE, targetHost |-> FALSE, host |-> FALSE, port |-> FALSE]}
    \cup {[json |-> TRUE, targetHost |-> th, host |-> h, port |-> p] :
             th \in BOOLEAN, h \in BOOLEAN, p \in BOOLEAN}

\* clearTimeout(timeout)
ClearSendTimeout(timer) == IF timer = "armed" THEN "cleared" ELSE timer

\* the consume callback of runOnce (and of run in consumer.js) up to
\* dns.lookup: text that is no JSON is acked; a payload without a host
\* (targetHost or host) or without a port is acked and skipped; otherwise
\* the 5 s timer is armed and the lookup starts
SidecarConsume(d, m) ==
    /\ sidecar[d].state = "none"
    /\ \A e \in Deliveries : e < d => sidecar[e].state # "none"
    /\ LET msg == [NoSidecar EXCEPT !.json = m.json, !.targetHost = m.targetHost,
                                   !.host = m.host, !.port = m.port]
           hasHost == m.targetHost \/ m.host
       IN sidecar' = [sidecar EXCEPT ![d] =
                         IF ~m.json THEN [msg EXCEPT !.state = "returned", !.acks = 1]
                         ELSE IF ~hasHost \/ ~m.port
                         THEN [msg EXCEPT !.state = "returned", !.acks = 1]
                         ELSE [msg EXCEPT !.state = "lookup", !.timer = "armed"]]
    /\ UNCHANGED <<serverVars, built, loopVars>>

\* the callback of dns.lookup: a failure acks the delivery and clears the
\* timer; a success starts socket.connect and registers the "error"
\* handler of the socket (connect revives a socket the timer has destroyed)
SidecarLookupDone(d, ok) ==
    /\ sidecar[d].state = "lookup"
    /\ sidecar' = [sidecar EXCEPT ![d] =
                      IF ok THEN [@ EXCEPT !.state = "connecting"]
                      ELSE [@ EXCEPT !.state = "returned", !.acks = @ + 1,
                                     !.timer = ClearSendTimeout(@)]]
    /\ UNCHANGED <<serverVars, built, loopVars>>

\* the callback of socket.connect: socket.write returns, sent = true and
\* the delivery is acked, or it throws and the delivery is nacked with
\* requeue; finally the timer is cleared and socket.end() called
SidecarConnected(d, ok) ==
    /\ sidecar[d].state = "connecting"
    /\ sidecar' = [sidecar EXCEPT ![d] =
                      IF ok THEN [@ EXCEPT !.state = "ended", !.sent = TRUE, !.acks = @ + 1,
                                           !.timer = ClearSendTimeout(@)]
                      ELSE [@ EXCEPT !.state = "ended", !.nacks = @ + 1,
                                     !.timer = ClearSendTimeout(@)]]
    /\ UNCHANGED <<serverVars, built, loopVars>>

\* socket.on("error"), while the connection is being made or after the
\* connect callback has run: nack with requeue, whatever was settled before
SidecarSocketError(d) ==
    /\ sidecar[d].state \in {"connecting", "ended"}
    /\ sidecar' = [sidecar EXCEPT ![d] = [@ EXCEPT !.state = "errored", !.nacks = @ + 1,
                                                   !.timer = ClearSendTimeout(@)]]
    /\ UNCHANGED <<serverVars, built, loopVars>>

\* the 5 s timer, nothing sent yet: socket.destroy().  While the connection
\* is being made that ends the socket without an "error" event and without
\* the connect callback; the delivery is not settled
SidecarTimeout(d) ==
    /\ sidecar[d].timer = "armed"
    /\ sidecar' = [sidecar EXCEPT ![d] =
                      [@ EXCEPT !.timer = "fired",
                                !.state = IF @ = "connecting" THEN "destroyed" ELSE @]]
    /\ UNCHANGED <<serverVars, built, loopVars>>

\* ------------------------------------------------- sidecar reconnection
Min(a, b) == IF a <= b THEN a ELSE b

\* attempts of safeAssertQueue inside its loop
Attempts == 5

\* runOnce rejects (amqplib.connect, createChannel, safeAssertQueue or
\* consume threw, or the connection emitted "error"): start() logs the
\* error and awaits delay(backoff)
Rejected ==
    /\ loop' = [loop EXCEPT !.pc = "delay", !.delay = backoff, !.outcome = "error"]
    /\ UNCHANGED backoff

\* runOnce: amqplib.connect, conn.createChannel and ch.consume, one await each
Setup(ok) ==
    /\ loop.pc \in {"connect", "createChannel", "consume"}
    /\ IF ok
       THEN /\ loop' = [loop EXCEPT !.pc = CASE loop.pc = "connect" -> "createChannel"
                                              [] loop.pc = "createChannel" -> "checkQueue"
                                              [] OTHER -> "open"]
            /\ UNCHANGED backoff
       ELSE Rejected
    /\ UNCHANGED <<serverVars, sidecar, built>>

\* runOnce: ch.checkQueue; when it throws safeAssertQueue starts
CheckQueue(ok) ==
    /\ loop.pc = "checkQueue"
    /\ loop' = IF ok THEN [loop EXCEPT !.pc = "consume"]
               ELSE [loop EXCEPT !.pc = "assertQueue", !.i = 0, !.assertBackoff = 200]
    /\ UNCHANGED <<backoff, serverVars, sidecar, built>>

\* safeAssertQueue: ch.assertQueue returns, throws an error the loop retries
\* after delay(backoff), or throws another error; the attempt after the loop
\* lets every error through
AssertQueue(result) ==
    /\ loop.pc = "assertQueue"
    /\ CASE result = "ok" ->
              /\ loop' = [loop EXCEPT !.pc = "consume"]
              /\ UNCHANGED backoff
         [] result = "retry" /\ loop.i < Attempts ->
              /\ loop' = [loop EXCEPT !.pc = "assertDelay"]
              /\ UNCHANGED backoff
         [] OTHER -> Rejected
    /\ UNCHANGED <<serverVars, sidecar, built>>

\* safeAssertQueue: delay(backoff) is over; its own backoff doubles up to 5 s
AssertDelayDone ==
    /\ loop.pc = "assertDelay"
    /\ loop' = [loop EXCEPT !.pc = "assertQueue", !.i = @ + 1,
                            !.assertBackoff = Min(@ * 2, 5000)]
    /\ UNCHANGED <<backoff, serverVars, sidecar, built>>

\* the connection closes without an error and start() keeps the backoff it
\* has
ConnCloseNoReset ==
    /\ loop.pc = "open"
    /\ loop' = [loop EXCEPT !.pc = "delay", !.delay = backoff, !.outcome = "close"]
    /\ UNCHANGED <<backoff, serverVars, sidecar, built>>

\* conn.once("close"): runOnce resolves; start() resets backoff to 1000 and
\* awaits delay(backoff)
ConnClose ==
    /\ loop.pc = "open"
    /\ backoff' = 1000
    /\ loop' = [loop EXCEPT !.pc = "delay", !.delay = 1000, !.outcome = "close"]
    /\ UNCHANGED <<serverVars, sidecar, built>>

\* conn.once("error"): runOnce rejects
ConnError ==
    /\ loop.pc = "open"
    /\ Rejected
    /\ UNCHANGED <<serverVars, sidecar, built>>

\* start(): delay(backoff) is over; backoff = Math.min(backoff * 2, 30000)
\* and the next runOnce begins
DelayDone ==
    /\ loop.pc = "delay"
    /\ backoff' = Min(backoff * 2, 30000)
    /\ loop' = [loop EXCEPT !.pc = "connect"]
    /\ UNCHANGED <<serverVars, sidecar, built>>

\* ------------------------------------------------------------------ Next
\* Frames by the IMEIs they may carry
FramesOf(I) == {f \in Frames : f.imei \in I \cup {NoImei}}

\* The connection lifecycle of several sessions within one period of the
\* sweep timer and within the 30 s of the authentication timer, no
\* device_commands traffic.
NextConn ==
    \/ \E s \in Sessions : Accept(s)
    \/ \E s \in Sessions, f \in FramesOf({"X", "Z"}) : DataEvent(s, f)
    \/ \E ok \in BOOLEAN : AuthLookupDone(ok)
    \/ \E ok \in BOOLEAN : DeviceIdDone(ok)
    \/ \E ok \in BOOLEAN : SaveDone(ok)
    \/ \E ok \in BOOLEAN : SetOnlineDone(ok)
    \/ \E ok \in BOOLEAN : TouchDone(ok)
    \/ \E s \in Sessions : PeerClose(s)
    \/ \E s \in Sessions : SocketError(s)
    \/ \E s \in Sessions : CloseEvent(s)
    \/ Stop
    \/ Exit

SpecConn == Init /\ [][NextConn]_vars

\* Authentication of few sessions against every kind of device row, within
\* the 30 s of the authentication timer.
NextAuth ==
    \/ \E s \in FewSessions : Accept(s)
    \/ \E s \in FewSessions, f \in Frames : DataEvent(s, f)
    \/ \E ok \in BOOLEAN : AuthLookupDone(ok)
    \/ \E ok \in BOOLEAN : DeviceIdDone(ok)
    \/ \E ok \in BOOLEAN : SaveDone(ok)
    \/ \E ok \in BOOLEAN : SetOnlineDone(ok)
    \/ \E ok \in BOOLEAN : TouchDone(ok)
    \/ \E s \in FewSessions : PeerClose(s)
    \/ \E s \in FewSessions : CloseEvent(s)

SpecAuth == Init /\ [][NextAuth]_vars

\* The same with the authentication timer, socket errors and shutdown.
NextDeadline ==
    \/ NextAuth
    \/ \E s \in FewSessions : SocketError(s)
    \/ \E s \in FewSessions : AuthDeadline(s)
    \/ Stop
    \/ Exit

SpecDeadline == Init /\ [][NextDeadline]_vars

\* Few sessions over several periods of the sweep timer, with a store that
\* answers every query.
NextSweep ==
    \/ \E s \in FewSessions : Accept(s)
    \/ \E s \in FewSessions, f \in FramesOf({"X"}) : DataEvent(s, f)
    \/ AuthLookupDone(TRUE)
    \/ DeviceIdDone(TRUE)
    \/ SaveDone(TRUE)
    \/ SetOnlineDone(TRUE)
    \/ TouchDone(TRUE)
    \/ CheckOfflineDevices
    \/ \E s \in FewSessions : PeerClose(s)

SpecSweep == Init /\ [][NextSweep]_vars

\* The dispatcher with few sessions of device X, which log in and answer
\* over GT06; a delivery for X while no session of X is registered is a
\* delivery for a device that is not connected.
CmdFrames == {f \in FramesOf({"X"}) : f.protocol = "gt06" /\ f.type \in {"login", "response"}}

NextCmd ==
    \/ \E s \in FewSessions : Accept(s)
    \/ \E s \in FewSessions, f \in CmdFrames : DataEvent(s, f)
    \/ \E ok \in BOOLEAN : AuthLookupDone(ok)
    \/ SetOnlineDone(TRUE)
    \/ TouchDone(TRUE)
    \/ \E s \in FewSessions : PeerClose(s)
    \/ \E s \in FewSessions : CloseEvent(s)
    \/ \E d \in Deliveries, command \in CommandKinds, c \in Commands :
          Deliver(d, "X", command, c)
    \/ \E ok \in BOOLEAN : CommandStatusDone(ok)

SpecCmd == Init /\ [][NextCmd]_vars

\* The byte strings devices send.  A GT06 frame is 0x78 0x78, the length
\* byte, the protocol number, the payload, two CRC bytes (never verified)
\* and 0x0D 0x0A; the length byte counts protocol number, payload and CRC.
Gt06Frame(protocolNumber, payload) ==
    <<START_BIT, START_BIT, Len(payload) + 3, protocolNumber>> \o payload
        \o <<0, 0>> \o <<STOP_BIT, STOP_BIT2>>
Gt06Login(i) == Gt06Frame(1, ImeiBcd[i] \o <<0, 1>>)
Gt06Heartbeat == Gt06Frame(19, <<0>>)
Gt06Response == Gt06Frame(21, <<0>>)
\* "##,imei:X,A;"
Gps303Login == HashHash \o <<Comma>> \o ImeiColon \o ImeiText["X"] \o <<Comma, 65, 59>>
\* "imei:X,0,0,0,0,0,0,0,0,0,0,0"
Gps303Location(i) ==
    ImeiColon \o ImeiText[i] \o <<Comma, 48, Comma, 48, Comma, 48, Comma, 48, Comma, 48,
                                   Comma, 48, Comma, 48, Comma, 48, Comma, 48, Comma, 48,
                                   Comma, 48>>
Junk(n) == [k \in 1..n |-> 0]
Gt06Location == Gt06Frame(18, Junk(21))

\* What GT06Parser.parse may be handed: GT06 frames followed by two bytes
\* of the next frame (a login whose payload is one byte long among them),
\* the same with another first byte or another last byte, and every
\* prefix of these.
Gt06Wire ==
    LET frames == {Gt06Login("X"), Gt06Heartbeat, Gt06Response, Gt06Location,
                   Gt06Frame(1, <<0>>), Gt06Frame(0, <<>>)}
        broken == {[f EXCEPT ![1] = 121] : f \in frames}
                  \cup {[f EXCEPT ![Len(f)] = 11] : f \in frames}
    IN {f \o <<START_BIT, START_BIT>> : f \in frames \cup broken}
ParseInputs == UNION {{SubSeq(w, 1, n) : n \in 0..Len(w)} : w \in Gt06Wire}

\* The chunks of one data event: a whole frame, the two parts of a frame cut
\* by the network, two frames at once, a frame followed by bytes of no
\* protocol.
CutAt == 4
Parts(frame) == {SubSeq(frame, 1, CutAt), SubSeq(frame, CutAt + 1, Len(frame))}
BufChunks ==
    {Gt06Login("X"), Gt06Heartbeat, Gps303Login, Gps303Location("X")}
    \cup Parts(Gt06Heartbeat)
    \cup {Gt06Heartbeat \o Gt06Heartbeat, Gt06Heartbeat \o Junk(BufferCap + 1)}

\* The reader of few sessions, byte by byte.
NextBuf ==
    \/ \E s \in FewSessions : Accept(s)
    \/ \E s \in FewSessions, chunk \in BufChunks : Receive(s, chunk)
    \/ \E ok \in BOOLEAN : AuthLookupDone(ok)
    \/ \E ok \in BOOLEAN : DeviceIdDone(ok)
    \/ \E ok \in BOOLEAN : SaveDone(ok)
    \/ \E ok \in BOOLEAN : SetOnlineDone(ok)
    \/ \E ok \in BOOLEAN : TouchDone(ok)
    \/ \E s \in FewSessions : PeerClose(s)
    \/ \E s \in FewSessions : CloseEvent(s)

SpecBuf == Init /\ [][NextBuf]_vars

\* The dispatcher with few sessions of device X, which log in over GT06 and
\* answer commands with the 0x15 frame.
AckChunks == {Gt06Login("X"), Gt06Response}

NextAck ==
    \/ \E s \in FewSessions : Accept(s)
    \/ \E s \in FewSessions, chunk \in AckChunks : Receive(s, chunk)
    \/ \E ok \in BOOLEAN : AuthLookupDone(ok)
    \/ SetOnlineDone(TRUE)
    \/ TouchDone(TRUE)
    \/ \E s \in FewSessions : PeerClose(s)
    \/ \E s \in FewSessions : CloseEvent(s)
    \/ \E d \in Deliveries, command \in CommandKinds, c \in Commands :
          Deliver(d, "X", command, c)
    \/ \E ok \in BOOLEAN : CommandStatusDone(ok)

SpecAck == Init /\ [][NextAck]_vars

\* Few sessions that send frames before and after they log in: the GPS303
\* login, GT06 frames with and without an IMEI, bytes of no protocol.
PreAuthChunks ==
    {Gps303Login, Gt06Login("X"), Gt06Heartbeat, Gt06Location, Gt06Response, Junk(CutAt)}

NextPreAuth ==
    \/ \E s \in FewSessions : Accept(s)
    \/ \E s \in FewSessions, chunk \in PreAuthChunks : Receive(s, chunk)
    \/ \E ok \in BOOLEAN : AuthLookupDone(ok)
    \/ \E ok \in BOOLEAN : DeviceIdDone(ok)
    \/ \E ok \in BOOLEAN : SaveDone(ok)
    \/ \E ok \in BOOLEAN : SetOnlineDone(ok)
    \/ \E ok \in BOOLEAN : TouchDone(ok)
    \/ \E s \in FewSessions : PeerClose(s)
    \/ \E s \in FewSessions : CloseEvent(s)

SpecPreAuth == Init /\ [][NextPreAuth]_vars

\* Few sessions of device X that log in over GT06 and report locations, with
\* a store and a broker channel that may fail.
LocChunks == {Gt06Login("X"), Gt06Location}

NextLoc ==
    \/ \E s \in FewSessions : Accept(s)
    \/ \E s \in FewSessions, chunk \in LocChunks : Receive(s, chunk)
    \/ \E ok \in BOOLEAN : AuthLookupDone(ok)
    \/ \E ok \in BOOLEAN : DeviceIdDone(ok)
    \/ \E ok \in BOOLEAN : SaveDone(ok)
    \/ PublishFailed
    \/ \E ok \in BOOLEAN : SetOnlineDone(ok)
    \/ \E ok \in BOOLEAN : TouchDone(ok)
    \/ \E s \in FewSessions : PeerClose(s)
    \/ \E s \in FewSessions : CloseEvent(s)

SpecLoc == Init /\ [][NextLoc]_vars

\* The same dispatcher on a queue that also carries deliveries that are no JSON.
NextBus ==
    \/ NextCmd
    \/ \E d \in Deliveries : DeliverMalformed(d)

SpecBus == Init /\ [][NextBus]_vars

\* Few sessions, some of which send nothing, with the authentication timer.
SilentChunks == {Gt06Login("X"), Gt06Heartbeat}

NextSilent ==
    \/ \E s \in FewSessions : Accept(s)
    \/ \E s \in FewSessions, chunk \in SilentChunks : Receive(s, chunk)
    \/ \E ok \in BOOLEAN : AuthLookupDone(ok)
    \/ \E ok \in BOOLEAN : SetOnlineDone(ok)
    \/ \E ok \in BOOLEAN : TouchDone(ok)
    \/ \E s \in FewSessions : PeerClose(s)
    \/ \E s \in FewSessions : CloseEvent(s)
    \/ \E s \in FewSessions : AuthDeadline(s)

SpecSilent == Init /\ [][NextSilent]_vars

\* The sidecar consumer on device_commands.
NextSidecar ==
    \/ \E d \in Deliveries, m \in SidecarMessages : SidecarConsume(d, m)
    \/ \E d \in Deliveries, ok \in BOOLEAN : SidecarLookupDone(d, ok)
    \/ \E d \in Deliveries, ok \in BOOLEAN : SidecarConnected(d, ok)
    \/ \E d \in Deliveries : SidecarSocketError(d)
    \/ \E d \in Deliveries : SidecarTimeout(d)

SpecSidecar == Init /\ [][NextSidecar]_vars

\* The same with the callbacks and the timer that are bound to happen: a
\* lookup calls back, a connection is made or fails, an armed timer fires.
SpecSidecarLive ==
    /\ SpecSidecar
    /\ \A d \in Deliveries :
          /\ WF_vars(\E ok \in BOOLEAN : SidecarLookupDone(d, ok))
          /\ WF_vars((\E ok \in BOOLEAN : SidecarConnected(d, ok)) \/ SidecarSocketError(d))
          /\ WF_vars(SidecarTimeout(d))

\* The sidecar's connection to the broker: runOnce and the loop of start().
NextReconnect ==
    \/ \E ok \in BOOLEAN : Setup(ok)
    \/ \E ok \in BOOLEAN : CheckQueue(ok)
    \/ \E result \in {"ok", "retry", "fatal"} : AssertQueue(result)
    \/ AssertDelayDone
    \/ ConnClose
    \/ ConnError
    \/ DelayDone

SpecReconnect == Init /\ [][NextReconnect]_vars

\* The builders of the GT06 sub-codec, called in any order.
NextGt06 ==
    \/ \E command \in Gt06Commands : CallBuildCommand(command)
    \/ \E success \in BOOLEAN : CallBuildAuthResponse(success)
    \/ \E success \in BOOLEAN : CallBuildLoginResponse(success)
    \/ \E sequence \in 0..MaxSequence : CallBuildLocationAck(sequence)
    \/ CallBuildHeartbeatResponse

SpecGt06 == Init /\ [][NextGt06]_vars

\* The GT06 sub-codec handed the bytes of a device.
NextGt06Parse ==
    \E b \in ParseInputs : CallParse(b)

SpecGt06Parse == Init /\ [][NextGt06Parse]_vars

\* =================================================================== claims
InRegistry(s) == \E i \in Imeis : connectedDevices[i] = s

\* C1 (as claimed): a session is in the registry iff it is authenticated and
\* its socket is open.  A socket the server destroyed whose close event is
\* still to come counts as neither open nor closed, so that the window
\* between destroy() and the close handler is not held against the claim.
C1_RegistryIffAuthenticatedOpen ==
    \A s \in Sessions :
        /\ InRegistry(s) => authenticated[s] /\ sock[s] # "closed"
        /\ authenticated[s] /\ sock[s] = "open" => InRegistry(s)

\* C2 (as claimed): when a session authenticates with an IMEI registered to
\* another session, the other session's socket is closed by that
\* authentication; the registry holds the new session only.
C2_DisplacedSocketClosed ==
    \A a \in displaced :
        /\ sock[a] # "open"
        /\ connectedDevices[imei[a]] # a

\* C3 (as claimed): the close or error event of a displaced session, while
\* the session that displaced it is registered, leaves the registry as it
\* is and issues no offline update for the device.
C3_DisplacedCloseKeepsNewer ==
    [][\A a \in displaced :
          (/\ sock[a] # "closed"
           /\ sock'[a] = "closed"
           /\ connectedDevices[imei[a]] \notin {NoSession, a})
          => /\ connectedDevices' = connectedDevices
             /\ dmDb' = dmDb]_vars

\* No store update in flight, no handler suspended, no close event pending
Quiescent ==
    /\ srvDb = <<>>
    /\ dmDb = <<>>
    /\ \A s \in Sessions : sock[s] # "destroyed"

\* C4 (as claimed): in every quiescent state the stored online flag of a
\* device is true iff an authenticated session for its IMEI is registered.
C4_OnlineIffRegistered ==
    Quiescent =>
        \A i \in DeviceRows :
            devOnline[i] <=> (connectedDevices[i] # NoSession
                              /\ authenticated[connectedDevices[i]])

\* C5: a session is authenticated, and an IMEI registered, only for an
\* active device row; and an authentication that fails (device absent or
\* inactive, or the lookup rejected) destroys the socket of its session and
\* changes neither the session's authenticated flag and imei, nor the
\* registry, nor the stored online flag, and issues no online update.
C5_FailedAuthentication ==
    [][/\ \A s \in Sessions :
             authenticated'[s] => imei'[s] \in DeviceRows /\ DeviceActive[imei'[s]]
       /\ \A i \in Imeis :
             connectedDevices'[i] # NoSession => i \in DeviceRows /\ DeviceActive[i]
       /\ authFailures' > authFailures =>
             LET s == Head(srvDb).s
             IN /\ sock'[s] # "open"
                /\ authenticated'[s] = authenticated[s]
                /\ imei'[s] = imei[s]
                /\ ~authenticated[s] =>
                      imei'[s] = NoImei /\ \A i \in Imeis : connectedDevices'[i] # s
                /\ connectedDevices' = connectedDevices
                /\ devOnline' = devOnline
                /\ \A n \in 1..Len(dmDb') :
                      n > Len(dmDb) => dmDb'[n].op # "setDeviceOnline"]_vars

\* C5 witness: an authentication has failed and its session, never
\* authenticated, has its socket destroyed
C5_Witness ==
    /\ authFailures > 0
    /\ \E s \in Sessions : sock[s] = "destroyed" /\ ~authenticated[s] /\ imei[s] = NoImei

\* C6 (as claimed): a session that is not authenticated when its 30 s
\* deadline expires has its socket closed by the server.
C6_DeadlineClosesSocket ==
    \A s \in Sessions : deadline[s] = "missed" => sock[s] # "open"

\* C7: the status of a command row changes only along pending->sent,
\* pending->failed, sent->acknowledged and sent->failed; failed and
\* acknowledged are terminal.
C7_StatusTransitions ==
    [][\A c \in Commands :
          \/ cmdStatus'[c] = cmdStatus[c]
          \/ cmdStatus[c] = "pending" /\ cmdStatus'[c] \in {"sent", "failed"}
          \/ cmdStatus[c] = "sent" /\ cmdStatus'[c] \in {"acknowledged", "failed"}]_vars

\* C7 witness: a delivery of a command that an earlier delivery had already
\* brought to failed has been processed, its store update applied
C7_Witness ==
    \E d, e \in Deliveries :
        /\ d < e
        /\ deliv[d].commandId = deliv[e].commandId
        /\ deliv[d].state = "acked" /\ deliv[d].stored = "ok"
        /\ deliv[e].state = "acked" /\ deliv[e].stored = "ok"
        /\ cmdStatus[deliv[e].commandId] = "failed"

\* C8 (as claimed): whenever a delivery is acked, the store records sent or
\* failed for its command.
C8_AckOnlyAfterStore ==
    \A d \in Deliveries :
        deliv[d].state = "acked" => cmdStatus[deliv[d].commandId] \in {"sent", "failed"}

Encodable(command) == SubCodecBuildCommand("gt06", command) # NoBytes

\* C10 (as claimed): a delivery for an IMEI with a registered session and an
\* encodable command has, once acked, written the encoded bytes to that
\* session's socket and left the command row sent.
C10_CommandSent ==
    \A d \in Deliveries :
        (deliv[d].state = "acked" /\ deliv[d].found /\ Encodable(deliv[d].command))
        => /\ deliv[d].bytes # NoBytes
           /\ cmdStatus[deliv[d].commandId] \in {"sent", "acknowledged"}

\* C11 (as claimed): a delivery for a registered session whose command kind
\* has no encoding leaves, once it is acked and unless the store rejected
\* the update, nothing written and the command row failed with "Invalid
\* command format".
C11_InvalidCommandFormat ==
    \A d \in Deliveries :
        (deliv[d].state = "acked" /\ deliv[d].found /\ ~Encodable(deliv[d].command)
            /\ deliv[d].stored # "error")
        => /\ deliv[d].bytes = NoBytes
           /\ cmdStatus[deliv[d].commandId] = "failed"
           /\ cmdError[deliv[d].commandId] = "Invalid command format"

\* C12 (as claimed): a delivery of an encodable command for a registered
\* session whose socket takes no bytes issues the update of the command row
\* to failed; it is not acked with the row left as it was, nor recorded sent.
C12_WriteFailure ==
    [][\A d \in Deliveries :
          (/\ deliv[d].state = "none" /\ deliv'[d].state # "none"
           /\ deliv'[d].found /\ sock[deliv'[d].s] # "open"
           /\ Encodable(deliv'[d].command))
          => \E n \in 1..Len(srvDb') :
                /\ srvDb'[n].op = "updateCommandStatus"
                /\ srvDb'[n].d = d
                /\ srvDb'[n].status = "failed"]_vars

\* C13 (as claimed): when an authenticated session sends the 0x15 command
\* response after an encodable command was delivered to it, the handling of
\* the response issues the update of that command row to acknowledged.
C13_ResponseAcknowledges ==
    [][\A s \in Sessions :
          (/\ Len(events'[s]) > Len(events[s])
           /\ events'[s][Len(events'[s])].type = "response"
           /\ authenticated[s])
          => \A d \in Deliveries :
                (/\ deliv[d].state = "acked" /\ deliv[d].found /\ deliv[d].s = s
                 /\ Encodable(deliv[d].command))
                => \E n \in 1..Len(srvDb') :
                      /\ srvDb'[n].op = "updateCommandStatus"
                      /\ srvDb'[n].c = deliv[d].commandId
                      /\ srvDb'[n].status = "acknowledged"]_vars

\* Everything the sub-codec of a protocol can put on the wire
RepliesOf(protocol) ==
    ({SubCodecAuthResponse(protocol, b) : b \in BOOLEAN}
        \cup {SubCodecLoginResponse(protocol, b) : b \in BOOLEAN}
        \cup {SubCodecLocationAck(protocol), SubCodecHeartbeatResponse(protocol)}
        \cup {SubCodecBuildCommand(protocol, k) : k \in CommandKinds})
    \ {NoBytes, Throws}

\* C14 (as claimed): everything written to the socket of a session whose
\* frames were all decoded by one sub-codec comes from that sub-codec.
C14_ProtocolConsistentReplies ==
    \A s \in Sessions :
        (/\ events[s] # <<>>
         /\ \A n \in 1..Len(events[s]) : events[s][n].protocol = events[s][1].protocol)
        => written[s] \subseteq RepliesOf(events[s][1].protocol)

\* C15 (as claimed): every frame of a session is decoded by the sub-codec
\* that decoded its first frame.
C15_FingerprintFixed ==
    \A s \in Sessions :
        \A n \in 1..Len(events[s]) : events[s][n].protocol = events[s][1].protocol

\* The whole GT06 frames devices send
Gt06Frames == {Gt06Login("X"), Gt06Heartbeat, Gt06Response}
IsPrefix(b, frame) == Len(b) <= Len(frame) /\ b = SubSeq(frame, 1, Len(b))

\* C16 (as claimed): while the bytes a session has received are a proper
\* prefix of a GT06 frame no event is dispatched and the buffer holds those
\* bytes; once they are the whole frame, in whatever chunks it came, exactly
\* one event was dispatched, the one GT06 decodes from the frame.
C16_NeedMore ==
    \A s \in Sessions : \A frame \in Gt06Frames :
        /\ (stream[s] # <<>> /\ stream[s] # frame /\ IsPrefix(stream[s], frame))
           => events[s] = <<>> /\ buffer[s] = stream[s]
        /\ stream[s] = frame
           => /\ Len(events[s]) = 1
              /\ events[s][1].protocol = "gt06"
              /\ events[s][1].type = GT06Parse(frame).type

\* C17 (as claimed): after a data event the buffer of a session holds at
\* most 1024 bytes.
C17_BufferBounded ==
    \A s \in Sessions : Len(buffer[s]) <= BufferCap

\* The handlers of handleDeviceData suspended on a store query on behalf of
\* session s; each suspended handler awaits exactly one query.
HandlersInFlight(s) ==
    LET q == srvDb \o dmDb
    IN Cardinality({n \in 1..Len(q) :
           /\ q[n].s = s
           /\ q[n].from \in {"authenticateDevice", "handleDeviceData",
                              "handleCommandResponse"}})

\* C18 (as claimed): the handling of a frame of a session does not start
\* before the handling of the session's earlier frame has finished.
C18_WireOrder ==
    \A s \in Sessions : HandlersInFlight(s) <= 1

\* C19 (as claimed): the server stops running only when it is told to; the
\* completion of a store operation, failed or not, never stops it.
C19_ErrorContainment ==
    [][(phase = "running" /\ phase' # "running") => (srvDb' = srvDb /\ dmDb' = dmDb)]_vars

\* C20 (as claimed): once stop has run no session socket is open,
\* authenticated or not.
C20_ShutdownClosesSockets ==
    phase # "running" => \A s \in Sessions : sock[s] # "open"

\* C21: the sidecar consumer never acks a device_commands delivery whose
\* JSON payload carries no targetHost.
C21_SidecarIsolation ==
    \A d \in Deliveries :
        sidecar[d].acks > 0 /\ sidecar[d].json => sidecar[d].targetHost

\* C22: every frame the GT06 sub-codec builds is 0x78 0x78, a length byte
\* equal to the data length plus one, the data bytes, two checksum bytes and
\* the stop bytes 0x0D 0x0A as its last two bytes.
C22_Gt06Framing ==
    built.frame # <<>> =>
        LET f == built.frame
            n == Len(built.data)
        IN /\ Len(f) = n + 7
           /\ f[1] = START_BIT /\ f[2] = START_BIT
           /\ f[3] = n + 1
           /\ SubSeq(f, 4, n + 3) = built.data
           /\ f[n + 6] = STOP_BIT /\ f[n + 7] = STOP_BIT2

\* The store queries in flight that a handler of session s issued
QueriesOf(s) == {n \in 1..Len(srvDb) : srvDb[n].s = s} \cup {n \in 1..Len(dmDb) : dmDb[n].s = s}

\* C23: when the authentication deadline fires on a connection that sent no
\* bytes, the server writes nothing to the socket and changes no device row,
\* no status-cache entry and no registry entry: neither in the step of the
\* timer nor afterwards on behalf of that connection (its close event
\* issues no offline update).
C23_SilentDeadline ==
    /\ [][\A s \in Sessions :
            deadline[s] = "future" /\ deadline'[s] # "future" /\ stream[s] = <<>>
            => /\ written' = written
               /\ devOnline' = devOnline
               /\ deviceStatus' = deviceStatus
               /\ connectedDevices' = connectedDevices
               /\ srvDb' = srvDb /\ dmDb' = dmDb]_vars
    /\ [](\A s \in Sessions :
            deadline[s] # "future" /\ stream[s] = <<>>
            => written[s] = {} /\ QueriesOf(s) = {} /\ ~InRegistry(s))

C23_Witness ==
    \E s \in Sessions :
        /\ stream[s] = <<>>
        /\ authTimeout[s] = "fired"
        /\ deadline[s] = "missed"
        /\ sock[s] = "closed"

\* C24: a device_commands delivery whose payload is not valid JSON is acked
\* (not nacked), with no store update and no socket write.
C24_MalformedAcked ==
    \A d \in Deliveries :
        deliv[d].state # "none" /\ ~deliv[d].json => deliv[d].state = "acked"

\* C25: after a data event no complete frame remains in the buffer of the
\* session: the codec is invoked until the buffer holds no whole GT06 frame,
\* so k frames in one chunk give k events.
C25_BufferDrained ==
    \A s \in Sessions : ~GT06Parse(buffer[s]).success

\* C26: buffered bytes are discarded only while a data event is decoded; a
\* step that receives nothing (the completion or failure of a store query of
\* a login, heartbeat, location or alarm handler) leaves the buffer of every
\* session as it was.
C26_StreamPosition ==
    [][stream' = stream => buffer' = buffer]_vars

\* The event of the data event of session s in this step, if there is one
Dispatched(s) == Len(events'[s]) = Len(events[s]) + 1
Event(s) == events'[s][Len(events'[s])]

\* C27: when a session that is not authenticated sends a "##" frame decoded
\* as a GPS303 login, the server writes exactly LOAD, starts no
\* authentication (no store query), updates no store row, cache entry or
\* registry entry, publishes nothing and leaves authenticated and imei of
\* the session as they were.
C27_Gps303PreAuthLogin ==
    [][\A s \in Sessions :
          /\ Dispatched(s)
          /\ ~authenticated[s]
          /\ Event(s).type = "login" /\ Event(s).protocol = "gps303"
          => /\ written' = [written EXCEPT ![s] = @ \cup {"LOAD"}]
             /\ srvDb' = srvDb /\ dmDb' = dmDb
             /\ UNCHANGED <<devOnline, deviceStatus, locations, connectedDevices, published>>
             /\ UNCHANGED <<authenticated, imei>>]_vars

C27_Witness ==
    \E s \in Sessions :
        /\ events[s] = <<[type |-> "login", protocol |-> "gps303", imei |-> NoImei]>>
        /\ stream[s] = Gps303Login
        /\ written[s] = {"LOAD"}
        /\ ~authenticated[s] /\ imei[s] = NoImei
        /\ srvDb = <<>> /\ dmDb = <<>>

\* C28: when a session that is not authenticated sends a frame whose event
\* carries no IMEI and is not a login, the event is dropped: no store query
\* or row change, no message published, no registry change, no bytes
\* written.
C28_UnauthenticatedDropped ==
    [][\A s \in Sessions :
          /\ Dispatched(s)
          /\ ~authenticated[s]
          /\ Event(s).imei = NoImei /\ Event(s).type # "login"
          => /\ srvDb' = srvDb /\ dmDb' = dmDb
             /\ UNCHANGED <<devOnline, deviceStatus, locations, connectedDevices, published,
                            written>>]_vars

C28_Witness ==
    \E s \in Sessions :
        /\ events[s] = <<[type |-> "heartbeat", protocol |-> "gt06", imei |-> NoImei]>>
        /\ stream[s] = Gt06Heartbeat
        /\ ~authenticated[s]
        /\ written[s] = {}
        /\ srvDb = <<>> /\ dmDb = <<>> /\ published = {}

\* The message handleLocationData publishes for device i
TrackerMessage(i) == [queue |-> "tracker_messages", imei |-> i]

\* C29: a location is saved, then published to tracker_messages, then
\* acked to the device: a message is on tracker_messages only when the row
\* of its device is in the locations table, and the location ack is on the
\* socket of a session only when the message of its device was published.
C29_LocationOrder ==
    /\ \A m \in published : m.queue = "tracker_messages" => m.imei \in locations
    /\ \A s \in Sessions :
          buildLocationAck(NoBytes) \in written[s] => TrackerMessage(imei[s]) \in published

C29_Witness ==
    \E s \in Sessions :
        /\ events[s] # <<>> /\ events[s][Len(events[s])].type = "location"
        /\ imei[s] \in locations
        /\ TrackerMessage(imei[s]) \in published
        /\ buildLocationAck(NoBytes) \in written[s]

\* The deliveries with an encodable command that found session s registered
CommandsFor(s) ==
    {d \in Deliveries : /\ deliv[d].state # "none"
                        /\ deliv[d].found /\ deliv[d].s = s
                        /\ Encodable(deliv[d].command)}

Completes(ops, i) ==
    /\ dmDb # <<>>
    /\ Head(dmDb).op \in ops /\ Head(dmDb).imei = i
    /\ dmDb' # dmDb /\ Len(dmDb') <= Len(dmDb)

\* C31: marking a device offline (setDeviceOnline(imei, false), from a
\* disconnect or from the sweep) sets online = false in the store and in the
\* cache and leaves the cached lastSeen of the device as it was.
C31_MarkOffline ==
    [][\A i \in DeviceRows :
          Completes({"setDeviceOnline"}, i) /\ ~Head(dmDb).val /\ deviceStatus[i].present
          => /\ ~devOnline'[i]
             /\ deviceStatus'[i].present /\ ~deviceStatus'[i].online
             /\ deviceStatus'[i].seenAge = deviceStatus[i].seenAge]_vars

\* C32: after updateLastHeartbeat or updateLastLogin completes for a device,
\* the device is online in the store and in the cache.
C32_TouchImpliesOnline ==
    [][\A i \in DeviceRows :
          Completes({"updateLastLogin", "updateLastHeartbeat"}, i)
          => devOnline'[i] /\ deviceStatus'[i].present /\ deviceStatus'[i].online]_vars

\* C33: a pass of the cache cleanup keeps every row touched within the last
\* 3600 s; in particular a row whose lastSeen is not older than the offline
\* timeout of 300 s is still cached after the pass.
C33_CleanupKeepsRecent ==
    [][periods # 0 /\ periods' = 0
       => \A k \in CacheKeys :
             deviceStatus[k].present /\ deviceStatus[k].seenAge < OfflineTimeout
             => deviceStatus'[k].present]_vars

\* C34 (as claimed): when stopServer was run by the handler of an uncaught
\* exception or of an unhandled rejection the process exits with a code
\* other than zero, and when a signal ran it the process exits with zero.
C34_ExitCode ==
    phase = "exited"
    => /\ stopCause = "unhandledRejection" => exitCode # 0
       /\ stopCause = "SIGTERM" => exitCode = 0

\* C35: the delay start() awaits before it reconnects lies between 1 s and
\* 30 s; it is 1 s after a connection that closed normally and for the first
\* attempt that fails, and otherwise twice the delay before it, capped at
\* 30 s; and the loop always has a next step.
C35_Backoff ==
    /\ [][loop.pc # "delay" /\ loop'.pc = "delay"
          => loop'.delay = IF loop'.outcome = "close" \/ loop.delay = 0 THEN 1000
                           ELSE Min(2 * loop.delay, 30000)]_vars
    /\ [](loop.pc = "delay" => loop.delay >= 1000 /\ loop.delay <= 30000)
    /\ [](ENABLED <<NextReconnect>>_vars)

\* the sixth consecutive failure waits the capped 30 s
C35_Witness ==
    loop.pc = "delay" /\ loop.outcome = "error" /\ loop.delay = 30000

\* C36 (as claimed): GT06Parser.parse does not succeed on bytes that do not
\* start with 0x78 0x78; it does not succeed and consumes nothing when fewer
\* than length + 5 bytes are there; it does not succeed when the bytes at
\* length + 3 and length + 4 are not 0x0D 0x0A; and otherwise it succeeds
\* and consumes exactly length + 5 bytes.
C36_FrameDetection ==
    built.call = "parse"
    => LET b == built.data
           r == built.result
       IN IF Len(b) >= 2 /\ (b[1] # START_BIT \/ b[2] # START_BIT) THEN ~r.success
          ELSE IF Len(b) < 3 \/ Len(b) < b[3] + 5
          THEN ~r.success /\ r.bytesProcessed = 0
          ELSE IF b[b[3] + 4] # STOP_BIT \/ b[b[3] + 5] # STOP_BIT2 THEN ~r.success
          ELSE r.success /\ r.bytesProcessed = b[3] + 5

\* C37 (as claimed): when the authentication a frame triggered fails (the
\* lookup throws or finds no active row) the handling of the frame ends: no
\* query is issued on behalf of the frame, last_login update included, and
\* nothing is written to the socket.
C37_FailedAuthStops ==
    [][/\ srvDb # <<>>
       /\ Head(srvDb).op = "getDeviceByImei"
       /\ authFailures' = authFailures + 1
       => /\ srvDb' = Tail(srvDb)
          /\ dmDb' = dmDb
          /\ written' = written]_vars

\* the step in which authenticateDevice finds the device row of session s
Authenticates(s) ==
    /\ srvDb # <<>>
    /\ Head(srvDb).op = "getDeviceByImei" /\ Head(srvDb).s = s
    /\ srvDb' = Tail(srvDb)
    /\ authFailures' = authFailures

\* C38 (as claimed): a session that is authenticated is not authenticated
\* again and its imei does not change once it is set; at most one key of
\* the registry refers to a session; and no key refers to a session whose
\* socket has closed.
C38_SingleIdentity ==
    /\ [][\A s \in Sessions :
            /\ imei[s] # NoImei => imei'[s] = imei[s]
            /\ authenticated[s] => ~Authenticates(s)]_vars
    /\ [](\A s \in Sessions :
            /\ Cardinality({i \in Imeis : connectedDevices[i] = s}) <= 1
            /\ sock[s] = "closed" => ~InRegistry(s))

\* C39 (as claimed): the sidecar settles a delivery at most once: the acks
\* and nacks it sends for one delivery number at most one.
C39_SettledOnce ==
    \A d \in Deliveries : sidecar[d].acks + sidecar[d].nacks <= 1

\* C40 (as claimed): every delivery the sidecar consumes is acked or nacked
\* in the end.
C40_AlwaysSettles ==
    \A d \in Deliveries :
        sidecar[d].state # "none" ~> sidecar[d].acks + sidecar[d].nacks > 0

====
